---- MODULE Spec2Model ----
(***************************************************************************)
(* A model of repo_map_generator.py: the exclusion filter, the tree        *)
(* renderer, the map-block insertion and the run of main().                *)
(*                                                                         *)
(* Text is modelled by TLA+ strings, character by character (Len, SubSeq   *)
(* and \o act on strings).  The lexer of TLA+ accepts ASCII only, so the   *)
(* three box-drawing connectors of the source are written with ASCII       *)
(* stand-ins of the same length (4 characters each):                       *)
(*     U+251C U+2500 U+2500 ' '   is   "|-- "                              *)
(*     U+2514 U+2500 U+2500 ' '   is   "+-- "                              *)
(*     U+2502 ' ' ' ' ' '         is   "|   "                              *)
(* A path is the sequence of its parts relative to the start path; the     *)
(* file system is a function from the existing paths to their entries.     *)
(***************************************************************************)
EXTENDS Integers, Sequences, FiniteSets, TLC

VARIABLES
    t_fs,        \* SpecTree: the directory tree handed to generate_tree
    t_name,      \* SpecTree: startpath.name
    t_tree,      \* SpecTree: the list `tree` of generate_tree
    t_pc         \* SpecTree: position in generate_tree

treeVars == <<t_fs, t_name, t_tree, t_pc>>

VARIABLES
    a_name,      \* SpecApply: filepath.name
    a_tree,      \* SpecApply: the tree text
    a_content,   \* SpecApply: the content read from the file
    a_once,      \* SpecApply: the outcome of lines 218-240 on a_content
    a_twice,     \* SpecApply: the outcome of lines 218-240 on that result
    a_pc         \* SpecApply: how many times the step was applied

applyVars == <<a_name, a_tree, a_content, a_once, a_twice, a_pc>>

VARIABLES
    fs,               \* the project directory: path -> entry
    fs0,              \* the project directory when the run started
    args,             \* the parsed command line
    pc,               \* position in main()
    run,              \* which run of the tool this is
    tree,             \* main: the string generate_tree returned
    metrics,          \* the Metrics object of the run
    summaries,        \* how many times print_summary was called in the run
    backup_dir,       \* main: backup_dir, None or a path
    backups,          \* the copies under the backup directories
    walk,             \* update_files_with_tree: what rglob has yet to yield
    f_pc,             \* update_files_with_tree: position in the loop body
    filepath,         \* update_files_with_tree: the loop variable
    content,          \* the content read from filepath
    updated_content,  \* the content computed for filepath
    backup_successful,
    modified_files,   \* the list update_files_with_tree returns
    fstate,           \* path -> position of the file in the per-file machine
    bk,               \* path -> outcome of create_backup for the file
    opened,           \* the files opened for writing by the update loop
    faults,           \* failures the environment has injected so far
    prev              \* the outcome of the run before this one

fileVars == <<walk, f_pc, filepath, content, updated_content, backup_successful,
              modified_files, fstate, bk, opened>>

runVars == <<fs, fs0, args, pc, run, tree, metrics, summaries, backup_dir,
             backups, fileVars, faults, prev>>

vars == <<treeVars, applyVars, runVars>>

None == "None"

\* Metrics.__init__
NewMetrics ==
    [files_processed |-> 0, files_modified |-> 0, files_skipped |-> 0,
     backup_size |-> 0, errors |-> 0, map_file_saved |-> FALSE]

RunIdle ==
    /\ fs = <<>> /\ fs0 = <<>> /\ args = <<>> /\ pc = "idle" /\ run = 0
    /\ tree = "" /\ metrics = NewMetrics /\ summaries = 0
    /\ backup_dir = None /\ backups = <<>>
    /\ walk = <<>> /\ f_pc = "idle" /\ filepath = None
    /\ content = "" /\ updated_content = "" /\ backup_successful = TRUE
    /\ modified_files = <<>> /\ fstate = <<>> /\ bk = <<>> /\ opened = {}
    /\ faults = 0 /\ prev = None

\* the variables of a specification that is not the one being run
TreeIdle ==
    /\ t_fs = <<>>
    /\ t_name = ""
    /\ t_tree = <<>>
    /\ t_pc = "idle"

ApplyIdle ==
    /\ a_name = ""
    /\ a_tree = ""
    /\ a_content = ""
    /\ a_once = [err |-> FALSE, text |-> "-"]
    /\ a_twice = [err |-> FALSE, text |-> "-"]
    /\ a_pc = -1

(***************************************************************************)
(* Characters and strings                                                  *)
(***************************************************************************)
Ascii == " !\"#$%&'()*+,-./0123456789:;<=>?@ABCDEFGHIJKLMNOPQRSTUVWXYZ[\\]^_abcdefghijklmnopqrstuvwxyz{|}~"

Upper == "ABCDEFGHIJKLMNOPQRSTUVWXYZ"

LowerLetters == "abcdefghijklmnopqrstuvwxyz"

Char(s, i) == SubSeq(s, i, i)

\* least i >= from at which lit occurs in s, 0 when there is none
\* (str.find, shifted to indices from 1)
FirstAt(s, lit, from) ==
    LET last == Len(s) - Len(lit) + 1
        hits == { i \in from..last : SubSeq(s, i, i + Len(lit) - 1) = lit }
    IN  IF hits = {} THEN 0
        ELSE CHOOSE i \in hits : \A j \in hits : i <= j

\* position of character c in string s, 0 when absent
IndexIn(s, c, i) == FirstAt(s, c, i)

\* code point order of the characters the model uses (control characters
\* sort before the printable ones)
OrdTable == [c \in { Char(Ascii, i) : i \in 1..Len(Ascii) } |-> IndexIn(Ascii, c, 1)]

Ord(c) == IF c \in DOMAIN OrdTable THEN OrdTable[c] ELSE 0

\* str.lower() of one character
LowerChar(c) ==
    LET k == IndexIn(Upper, c, 1)
    IN  IF k = 0 THEN c ELSE Char(LowerLetters, k)

LowerTable == [c \in { Char(Ascii, i) : i \in 1..Len(Ascii) } |-> LowerChar(c)]

\* str.lower()
RECURSIVE Lower(_)
Lower(s) ==
    IF s = "" THEN ""
    ELSE (IF Head(s) \in DOMAIN LowerTable THEN LowerTable[Head(s)] ELSE Head(s))
         \o Lower(Tail(s))

\* str.startswith / occurrence of a literal at a position
StartsWithAt(s, lit, i) ==
    /\ i >= 1
    /\ i + Len(lit) - 1 <= Len(s)
    /\ SubSeq(s, i, i + Len(lit) - 1) = lit

StartsWith(s, lit) == StartsWithAt(s, lit, 1)

\* str < str, by code points
RECURSIVE StrLess(_, _)
StrLess(a, b) ==
    IF a = "" THEN b # ""
    ELSE IF b = "" THEN FALSE
    ELSE IF Head(a) = Head(b) THEN StrLess(Tail(a), Tail(b))
    ELSE Ord(Head(a)) < Ord(Head(b))

\* '\n'.join(lines)
RECURSIVE Join(_)
Join(lines) ==
    IF lines = <<>> THEN ""
    ELSE IF Len(lines) = 1 THEN lines[1]
    ELSE lines[1] \o "\n" \o Join(Tail(lines))

\* str.split('\n')
RECURSIVE SplitLines(_)
SplitLines(s) ==
    LET r == FirstAt(s, "\n", 1)
    IN  IF r = 0 THEN <<s>>
        ELSE <<SubSeq(s, 1, r - 1)>> \o SplitLines(SubSeq(s, r + 1, Len(s)))

(***************************************************************************)
(* fnmatch and the exclusion filter                                        *)
(***************************************************************************)
\* fnmatch.fnmatchcase for the pattern syntax the exclusion sets use:
\* '*' matches any run of characters, '?' one character, any other
\* character itself (no pattern of the sets has a '[').
RECURSIVE fnmatch(_, _)
fnmatch(name, pat) ==
    IF pat = "" THEN name = ""
    ELSE IF Head(pat) = "*"
         THEN \/ fnmatch(name, Tail(pat))
              \/ name # "" /\ fnmatch(Tail(name), pat)
    ELSE IF name = "" THEN FALSE
    ELSE IF Head(pat) = "?" THEN fnmatch(Tail(name), Tail(pat))
    ELSE Head(pat) = Head(name) /\ fnmatch(Tail(name), Tail(pat))

EXCLUDE_FILES == {
    ".gitignore", ".gitattributes", ".hgignore", ".svnignore",
    "requirements.txt", "*LICENSE*", "setup.py", "setup.cfg", "pyproject.toml",
    "Pipfile", "Pipfile.lock", "*README*",
    "package.json", "package-lock.json", "yarn.lock", "composer.json", "composer.lock",
    ".editorconfig", ".eslintrc", ".prettierrc", ".stylelintrc",
    "*.pyc", "*.pyo", "*.pyd", "*.so", "*.dll", "*.exe", "*.obj", "*.o",
    "*.a", "*.lib", "*.egg", "*.whl",
    "*.log", "*.sql", "*.sqlite", "*.db",
    ".DS_Store", "Thumbs.db", "desktop.ini",
    "*~", "*.swp", "*.swo", "*.tmp", "temp_*",
    "__init__.py", "MANIFEST.in",
    "node_modules",
    "*.iml", "*.ipr", "*.iws",
    "*.bak", "*.cache", "*.pid",
    "*.png", "*.jpg", "*.jpeg", "*.gif", "*.bmp", "*.svg", "*.tiff", "*.ico",
    "*.mp4", "*.mkv", "*.avi", "*.mov", "*.wmv", "*.flv", "*.webm", "*.m4v",
    "*.mp3", "*.wav", "*.flac", "*.aac", "*.ogg", "*.wma", "*.m4a",
    "*.pdf", "*.doc", "*.docx", "*.ppt", "*.pptx", "*.xls", "*.xlsx", "*.odt", "*.ods",
    "*.zip", "*.tar", "*.gz", "*.rar", "*.7z", "*.bz2", "*.xz",
    "*.psd", "*.ai", "*.eps", "*.indd", "*.fla", "*.swf",
    "*aider*", "*.tree_map.*", "repo_map.md", "repo_map_gen*" }

EXCLUDE_DIRS == {
    ".git", ".svn", ".hg", "CVS",
    "venv", "env", ".env", "virtualenv", ".venv",
    ".conda", "anaconda", "miniconda",
    "build", "dist", "target", "out",
    "__pycache__", ".mypy_cache", ".pytest_cache", ".ruff_cache",
    ".tox", ".eggs", ".cache",
    "node_modules", "bower_components", "jspm_packages",
    "vendor", "packages",
    ".idea", ".vscode", ".vs", ".eclipse", ".settings",
    ".sublime-project", ".sublime-workspace",
    "docs", "_build", "site", "sphinx-docs",
    "htmlcov", ".coverage", ".coveragerc",
    "logs", "__logs__",
    "tmp", "temp",
    "$RECYCLE.BIN", "System Volume Information",
    ".sass-cache", ".gradle", ".m2",
    "media", "public", "static", "assets",
    "*aider*", ".tree_map_backup" }

\* pattern.lower() of every pattern
EXCLUDE_FILES_lower == { Lower(pattern) : pattern \in EXCLUDE_FILES }

EXCLUDE_DIRS_lower == { Lower(pattern) : pattern \in EXCLUDE_DIRS }

\* any(fnmatch.fnmatch(part.lower(), pattern.lower()) for pattern in patterns)
MatchesAny(name, lowered) ==
    LET n == Lower(name)
    IN  \E pattern \in lowered : fnmatch(n, pattern)

\* Path.name of a non-empty relative path
Name(path) == path[Len(path)]

\* Path.parent
Parent(path) == SubSeq(path, 1, Len(path) - 1)

is_file(F, path) == path \in DOMAIN F /\ F[path].kind = "file"

is_dir(F, path) == path = <<>> \/ (path \in DOMAIN F /\ F[path].kind = "dir")

\* mutant: only the name of the entry itself is matched, not its ancestors
should_exclude_nameonly(F, path) ==
    \/ MatchesAny(Name(path), EXCLUDE_DIRS_lower)
    \/ /\ is_file(F, path)
       /\ MatchesAny(Name(path), EXCLUDE_FILES_lower)

should_exclude(F, path) ==
    \/ \E i \in 1..Len(path) : MatchesAny(path[i], EXCLUDE_DIRS_lower)
    \/ /\ is_file(F, path)
       /\ MatchesAny(Name(path), EXCLUDE_FILES_lower)

(***************************************************************************)
(* generate_tree                                                           *)
(***************************************************************************)
TEE   == "|-- "
ELBOW == "+-- "
PIPE  == "|   "
BLANK == "    "

\* path.iterdir()
Children(F, path) == { p \in DOMAIN F : Len(p) = Len(path) + 1 /\ Parent(p) = path }

\* sorted(): the items of one directory differ in their last part only
RECURSIVE Sorted(_)
Sorted(items) ==
    IF items = {} THEN <<>>
    ELSE LET least == CHOOSE p \in items :
                          \A q \in items \ {p} : StrLess(Name(p), Name(q))
         IN  <<least>> \o Sorted(items \ {least})

\* mutant: the last file carries the elbow even when subdirectories follow
FileConnector_lastfile(i, files, dirs) ==
    IF i = Len(files) THEN ELBOW ELSE TEE

\* the connector of the i-th file of a directory (lines 343-347)
FileConnector(i, files, dirs) ==
    IF i = Len(files) /\ dirs = <<>> THEN ELBOW ELSE TEE

\* the connector of the i-th subdirectory (lines 350-351)
DirConnector(i, dirs) == IF i = Len(dirs) THEN ELBOW ELSE TEE

\* the prefix handed to the recursive call for the i-th subdirectory
ChildPrefix(prefix, i, dirs) ==
    prefix \o (IF i = Len(dirs) THEN BLANK ELSE PIPE)

RECURSIVE add_to_tree(_, _, _)
add_to_tree(F, path, prefix) ==
    LET items == Sorted(Children(F, path))
        IsFileItem(p) == ~should_exclude(F, p) /\ is_file(F, p)
        IsDirItem(p)  == ~should_exclude(F, p) /\ ~is_file(F, p) /\ is_dir(F, p)
        files == SelectSeq(items, IsFileItem)
        dirs  == SelectSeq(items, IsDirItem)
        FileLine(i) == prefix \o FileConnector(i, files, dirs) \o Name(files[i])
        DirLines(i) ==
            <<prefix \o DirConnector(i, dirs) \o Name(dirs[i]) \o "/">>
            \o add_to_tree(F, dirs[i], ChildPrefix(prefix, i, dirs))
        RECURSIVE AllDirLines(_)
        AllDirLines(i) ==
            IF i > Len(dirs) THEN <<>> ELSE DirLines(i) \o AllDirLines(i + 1)
    IN  [i \in 1..Len(files) |-> FileLine(i)] \o AllDirLines(1)

\* the list `tree` when the recursive descent is over
Descent(F, name) == <<name \o "/">> \o add_to_tree(F, <<>>, "")

\* '    ' * i
RECURSIVE Indent(_)
Indent(i) == IF i = 0 THEN "" ELSE BLANK \o Indent(i - 1)

\* mutant: the lines at the end of the list that hold the elbow anywhere
RECURSIVE TrailingRun_contains(_)
TrailingRun_contains(lines) ==
    IF lines = <<>> THEN 0
    ELSE IF FirstAt(lines[Len(lines)], ELBOW, 1) # 0
         THEN 1 + TrailingRun_contains(SubSeq(lines, 1, Len(lines) - 1))
    ELSE 0

\* number of lines at the end of the list that start with the elbow
RECURSIVE TrailingRun(_)
TrailingRun(lines) ==
    IF lines = <<>> THEN 0
    ELSE IF StartsWith(lines[Len(lines)], ELBOW)
         THEN 1 + TrailingRun(SubSeq(lines, 1, Len(lines) - 1))
    ELSE 0

\* line.split(lit, 1)[1] of a line that contains lit
AfterFirst(line, lit) ==
    SubSeq(line, FirstAt(line, lit, 1) + Len(lit), Len(line))

\* the "final curved lines" loop
PostPass(lines) ==
    IF Len(lines) > 1
    THEN LET n == Len(lines)
             k == TrailingRun(lines)
             \* reversed(last_lines)[i], i counted from 0
             Run(i) == lines[n - k + 1 + i]
         IN  [j \in 1..n |->
                 IF j > n - k
                 THEN LET i == n - j
                      IN  Indent(i) \o ELBOW \o AfterFirst(Run(i), ELBOW)
                 ELSE lines[j]]
    ELSE lines

generate_tree(F, name) == Join(PostPass(Descent(F, name)))

(***************************************************************************)
(* Comment styles and the map block                                        *)
(***************************************************************************)
Style(start, middle, end) == [start |-> start, middle |-> middle, end |-> end]

DEFAULT_COMMENT_STYLE == Style("#", "#", "")

COMMENT_STYLES ==
    [ext \in {"py", "rb", "pl", "sh", "bash", "zsh", "yaml", "yml", "toml", "conf"}
        |-> Style("#", "#", "")] @@
    [ext \in {"js", "java", "c", "cpp", "cs", "go", "rs", "swift", "kt", "scala"}
        |-> Style("//", "//", "")] @@
    [ext \in {"ini", "cfg"} |-> Style(";", ";", "")] @@
    [ext \in {"sql", "lua", "hs"} |-> Style("--", "--", "")] @@
    [ext \in {"md", "html", "htm", "xml"} |-> Style("<!--", " *", "-->")] @@
    [ext \in {"css", "scss", "less", "php", "jsx", "tsx"} |-> Style("/*", " *", "*/")]

\* str.lstrip('.')
RECURSIVE LStripDots(_)
LStripDots(s) == IF s # "" /\ Head(s) = "." THEN LStripDots(Tail(s)) ELSE s

\* index of the last '.' of a name, 0 when it has none (str.rfind)
LastDot(name) ==
    LET Dots == { i \in 1..Len(name) : Char(name, i) = "." }
    IN  IF Dots = {} THEN 0 ELSE CHOOSE i \in Dots : \A j \in Dots : j <= i

\* Path.suffix: from the last dot, unless the dot leads or ends the name
Suffix(name) ==
    LET i == LastDot(name)
    IN  IF 1 < i /\ i < Len(name) THEN SubSeq(name, i, Len(name)) ELSE ""

get_comment_style(file_extension) ==
    LET ext == LStripDots(file_extension)
    IN  IF ext \in DOMAIN COMMENT_STYLES THEN COMMENT_STYLES[ext]
        ELSE DEFAULT_COMMENT_STYLE

\* the lines of the tree, each behind the continuation marker
RECURSIVE MiddleLines(_, _)
MiddleLines(lines, middle) ==
    IF lines = <<>> THEN ""
    ELSE middle \o " " \o Head(lines) \o "\n" \o MiddleLines(Tail(lines), middle)

\* updated_map (lines 221-226)
UpdatedMap(text, style, name) ==
    style.start \o " Repository Map:\n"
    \o MiddleLines(SplitLines(text), style.middle)
    \o style.middle \o " File: " \o name \o "\n"
    \o (IF style.end # "" THEN style.end \o "\n" ELSE "")

(***************************************************************************)
(* re.search and re.subn with map_pattern, under re.DOTALL                 *)
(***************************************************************************)
\* map_pattern is
\*     group 1:  <start> Repository Map: .*? <middle> File: .*? \n
\*     group 2:  <end> \s*       (only when the style has an end marker)

\* \s of a str pattern, for the characters the model uses
Whitespace == {" ", "\t", "\n", "\r", "\f"}

\* \s* is greedy: the last index of the whitespace run that starts at i
WhitespaceRun(s, i) ==
    LET Stops == { j \in i..Len(s) : Char(s, j) \notin Whitespace }
    IN  IF Stops = {} THEN Len(s)
        ELSE (CHOOSE j \in Stops : \A k \in Stops : j <= k) - 1

\* File:.*?\n then (end\s*): the match end for the least newline at or
\* after `from` behind which the rest of the pattern matches, 0 when none
RECURSIVE TailEnd(_, _, _)
TailEnd(s, end, from) ==
    LET r == FirstAt(s, "\n", from)
    IN  IF r = 0 THEN [nl |-> 0, last |-> 0]
        ELSE IF end = "" THEN [nl |-> r, last |-> r]
        ELSE IF StartsWithAt(s, end, r + 1)
             THEN [nl |-> r, last |-> WhitespaceRun(s, r + 1 + Len(end))]
        ELSE TailEnd(s, end, r + 1)

\* .*?middle File: tried at the least occurrence first
RECURSIVE BodyEnd(_, _, _)
BodyEnd(s, style, from) ==
    LET lit == style.middle \o " File:"
        q   == FirstAt(s, lit, from)
    IN  IF q = 0 THEN [nl |-> 0, last |-> 0]
        ELSE LET t == TailEnd(s, style.end, q + Len(lit))
             IN  IF t.last # 0 THEN t ELSE BodyEnd(s, style, q + 1)

\* re.search(map_pattern, content, re.DOTALL): the leftmost match, as
\* [first, nl, last]: group 1 is first..nl, group 2 is nl+1..last
RECURSIVE Search(_, _, _)
Search(s, style, from) ==
    LET lit == style.start \o " Repository Map:"
        p   == FirstAt(s, lit, from)
    IN  IF p = 0 THEN [first |-> 0, nl |-> 0, last |-> 0]
        ELSE LET b == BodyEnd(s, style, p + Len(lit))
             IN  IF b.last # 0 THEN [first |-> p, nl |-> b.nl, last |-> b.last]
                 ELSE Search(s, style, p + 1)

\* the replacement template of re.subn: a backslash escapes the next
\* character.  \\ is a backslash, \n a newline, \1 and \2 the groups of the
\* match; another letter, a group the pattern does not have, or a
\* backslash at the end raise re.error; before any other character the
\* backslash stays.
Letters == { Char(Upper, i) : i \in 1..26 } \cup { Char(LowerLetters, i) : i \in 1..26 }

RECURSIVE ExpandTemplate(_, _, _)
ExpandTemplate(repl, g1, g2) ==
    LET b == FirstAt(repl, "\\", 1)
    IN  IF b = 0 THEN [err |-> FALSE, text |-> repl]
        ELSE IF b = Len(repl) THEN [err |-> TRUE, text |-> ""]
        ELSE LET c    == Char(repl, b + 1)
                 rest == ExpandTemplate(SubSeq(repl, b + 2, Len(repl)), g1, g2)
                 out  == IF c = "\\" THEN [err |-> FALSE, text |-> "\\"]
                         ELSE IF c = "n" THEN [err |-> FALSE, text |-> "\n"]
                         ELSE IF c = "1" THEN [err |-> FALSE, text |-> g1]
                         ELSE IF c = "2" THEN [err |-> g2 = "none", text |-> g2]
                         ELSE IF c \in Letters THEN [err |-> TRUE, text |-> ""]
                         ELSE [err |-> FALSE, text |-> "\\" \o c]
             IN  [err  |-> out.err \/ rest.err,
                  text |-> SubSeq(repl, 1, b - 1) \o out.text \o rest.text]

\* lines 218-240: the new content of a file, or the exception re.subn raises
apply(old, text, name) ==
    LET style       == get_comment_style(Suffix(name))
        updated_map == UpdatedMap(text, style, name)
        m           == Search(old, style, 1)
    IN  IF m.first # 0
        THEN LET g1 == SubSeq(old, m.first, m.nl)
                 g2 == IF style.end = "" THEN "none"
                       ELSE SubSeq(old, m.nl + 1, m.last)
                 x  == ExpandTemplate(updated_map, g1, g2)
             IN  IF x.err THEN [err |-> TRUE, text |-> ""]
                 ELSE [err  |-> FALSE,
                       text |-> SubSeq(old, 1, m.first - 1) \o x.text
                                \o SubSeq(old, m.last + 1, Len(old))]
        ELSE [err |-> FALSE, text |-> updated_map \o old]

(***************************************************************************)
(* SpecTree: generate_tree on bounded directory trees                      *)
(***************************************************************************)
MaxTreeDepth == 3

File == [kind |-> "file"]
Dir  == [kind |-> "dir"]

\* the entries a directory tree of the model may have
TreeUniverse ==
    ( <<"Z.py">> :> File ) @@ ( <<"a.py">> :> File ) @@ ( <<"x.pyc">> :> File ) @@
    ( <<"lib">> :> Dir ) @@ ( <<"lib", "b.py">> :> File ) @@
    ( <<"lib", "in">> :> Dir ) @@ ( <<"lib", "in", "c.py">> :> File ) @@
    ( <<"lib", "in", "sub">> :> Dir ) @@ ( <<"lib", "in", "sub", "g.py">> :> File ) @@
    ( <<"src">> :> Dir ) @@ ( <<"src", "d.py">> :> File ) @@
    ( <<"Vendor">> :> Dir ) @@ ( <<"Vendor", "e.py">> :> File )

TreePaths == { p \in DOMAIN TreeUniverse : Len(p) <= MaxTreeDepth }

\* a directory tree: a set of entries that holds the parent of each of them
TreeFSs ==
    { [p \in S |-> TreeUniverse[p]] :
        S \in { T \in SUBSET TreePaths : \A p \in T : Len(p) > 1 => Parent(p) \in T } }

\* startpath.name: an ordinary name, and one that starts with the elbow
TreeRootNames == {"proj", ELBOW \o "r"}

TreeInit ==
    /\ t_fs \in TreeFSs
    /\ t_name \in TreeRootNames
    /\ t_tree = <<>>
    /\ t_pc = "start"
    /\ ApplyIdle
    /\ RunIdle

\* tree.append(name + '/'); add_to_tree(startpath)
TreeDescend ==
    /\ t_pc = "start"
    /\ t_tree' = Descent(t_fs, t_name)
    /\ t_pc' = "built"
    /\ UNCHANGED <<t_fs, t_name, applyVars, runVars>>

\* the "final curved lines" loop; the function then returns '\n'.join(tree)
TreePostPass ==
    /\ t_pc = "built"
    /\ t_tree' = PostPass(t_tree)
    /\ t_pc' = "done"
    /\ UNCHANGED <<t_fs, t_name, applyVars, runVars>>

TreeNext == TreeDescend \/ TreePostPass

SpecTree == TreeInit /\ [][TreeNext]_vars

(***************************************************************************)
(* SpecApply: the insert/replace step on bounded file contents             *)
(***************************************************************************)
MaxPieces == 3

ApplyNames == {"a.py", "n.md", "s.css", "Makefile"}

\* tree texts: a bare root and a root with two files
ApplyTrees == {"proj/", "proj/\n|-- a.py\n+-- n.md"}

\* the tree of an earlier run, already in the file
OldTree == "proj/\n+-- old.py"

\* what a file content of the model is made of: the block of an earlier
\* run, the delimiters of the pattern on their own, white space and text
Pieces(name) ==
    LET style == get_comment_style(Suffix(name))
    IN  { UpdatedMap(OldTree, style, name),
          style.start \o " Repository Map:",
          style.middle \o " File:",
          "\n", " ", "x" }
        \cup (IF style.end # "" THEN {style.end} ELSE {})

RECURSIVE Concat(_)
Concat(pieces) == IF pieces = <<>> THEN "" ELSE Head(pieces) \o Concat(Tail(pieces))

Contents(name) ==
    UNION { { Concat(ps) : ps \in [1..n -> Pieces(name)] } : n \in 0..MaxPieces }

NotApplied == [err |-> FALSE, text |-> "-"]

ApplyInit ==
    /\ a_name \in ApplyNames
    /\ a_tree \in ApplyTrees
    /\ a_content \in Contents(a_name)
    /\ a_once = NotApplied
    /\ a_twice = NotApplied
    /\ a_pc = 0
    /\ TreeIdle
    /\ RunIdle

\* the step applied to the content of the file
ApplyOnce ==
    /\ a_pc = 0
    /\ a_once' = apply(a_content, a_tree, a_name)
    /\ a_pc' = 1
    /\ UNCHANGED <<a_name, a_tree, a_content, a_twice, treeVars, runVars>>

\* the step applied to its own result, same tree text and file name
ApplyTwice ==
    /\ a_pc = 1
    /\ ~a_once.err
    /\ a_twice' = apply(a_once.text, a_tree, a_name)
    /\ a_pc' = 2
    /\ UNCHANGED <<a_name, a_tree, a_content, a_once, treeVars, runVars>>

ApplyNext == ApplyOnce \/ ApplyTwice

SpecApply == ApplyInit /\ [][ApplyNext]_vars

(***************************************************************************)
(* Spec: one run of main() on a small project, with failing file           *)
(* operations; SpecRuns: successive runs, without failures                 *)
(***************************************************************************)
MaxFaults == 1

MaxRuns == 2

\* Path.cwd() and its name
Cwd == "/home/u/proj"

RootName == "proj"

TextFile(data) == [kind |-> "file", data |-> data, binary |-> FALSE]

\* a file whose bytes do not decode as text
BinaryFile == [kind |-> "file", data |-> "", binary |-> TRUE]

NoFiles == [p \in {} |-> Dir]

VendorPart ==
    ( <<"Vendor">> :> Dir ) @@ ( <<"Vendor", "in">> :> Dir ) @@
    ( <<"Vendor", "in", "lib.py">> :> TextFile("y\n") )

\* project F in which file f already carries the map of F
WithMap(F, f) ==
    [F EXCEPT ![f].data = apply(@, generate_tree(F, RootName), Name(f)).text]

\* the projects the tool is run on
Projects ==
    { NoFiles,
      VendorPart,
      ( <<"a.py">> :> TextFile("x\n") ),
      ( <<"n.md">> :> TextFile("\nx\n") ),
      ( <<"a.py">> :> TextFile("x\r\n") ) @@ ( <<"pic.dat">> :> BinaryFile ) @@ VendorPart,
      ( <<"a.py">> :> TextFile("x\n") ) @@ ( <<"n.md">> :> TextFile("x\n") ) @@
          ( <<".git">> :> Dir ),
      WithMap(( <<"a.py">> :> TextFile("x\n") ) @@ ( <<"n.md">> :> TextFile("x\n") ),
              <<"a.py">>) }

\* the command lines: --backup is read only with --update-files, and
\* --force is given with --backup
ArgSets ==
    { a \in [update_files : BOOLEAN, backup : BOOLEAN, force : BOOLEAN,
             output : {"repo_map.md", "map.txt"}] :
        (a.backup => a.update_files) /\ (a.force => a.backup) }

\* the answers typed at a prompt
Answers == {"", "Yes", "n"}

\* answer.strip().lower() is '' or starts with 'y'
SaysYes(answer) == Lower(answer) = "" \/ StartsWith(Lower(answer), "y")

\* text mode read: universal newlines
RECURSIVE ReadText(_)
ReadText(data) ==
    LET r == FirstAt(data, "\r", 1)
    IN  IF r = 0 THEN data
        ELSE SubSeq(data, 1, r - 1) \o "\n"
             \o ReadText(SubSeq(data, (IF StartsWithAt(data, "\n", r + 1) THEN r + 2 ELSE r + 1),
                                Len(data)))

\* is_binary_file: the text mode read of the file raises
is_binary_file(F, path) == F[path].binary

\* startpath.rglob('*'): every entry below the start path, a directory
\* before its contents; the entries of one directory come in the order the
\* system lists them, of which the model takes the sorted one
RECURSIVE RGlobList(_, _)
RECURSIVE RGlob(_, _)
RGlobList(F, items) ==
    IF items = <<>> THEN <<>>
    ELSE <<Head(items)>>
         \o (IF is_file(F, Head(items)) THEN <<>> ELSE RGlob(F, Head(items)))
         \o RGlobList(F, Tail(items))
RGlob(F, path) == RGlobList(F, Sorted(Children(F, path)))

\* str(path) of a path below the working directory
RECURSIVE PathStr(_)
PathStr(path) ==
    IF path = <<>> THEN Cwd ELSE PathStr(Parent(path)) \o "/" \o Name(path)

MAX_PATH_LENGTH == 260

\* create_backup, lines 291-310: where the copy goes, None when the file
\* is not to be backed up
BackupPath(F, dir, path) ==
    IF FirstAt(PathStr(path), ".tree_map_backup", 1) # 0 THEN None
    ELSE IF should_exclude(F, path) THEN None
    ELSE IF Len(PathStr(dir \o path)) > MAX_PATH_LENGTH
         THEN dir \o <<"md5(" \o PathStr(path) \o ")" \o Suffix(Name(path))>>
    ELSE dir \o path

\* datetime.now().strftime(...): one name per run
Timestamp(r) == "run" \o ToString(r)

\* generate_map_file, line 375 (the fence of three backquotes is written ~~~)
MapFileContent(text, name) ==
    "~~~\n# Repository Map\n\n" \o text \o "\n\nFile: " \o name \o "\n~~~\n"

\* the counters of Metrics
IncProcessed(m) == [m EXCEPT !.files_processed = @ + 1]

IncModified(m) == [m EXCEPT !.files_modified = @ + 1]

\* mutant: a skip that is not counted
IncSkipped_lost(m) == m

IncSkipped(m) == [m EXCEPT !.files_skipped = @ + 1]

\* mutant: an error that is not counted
IncErrors_lost(m) == m

IncErrors(m) == [m EXCEPT !.errors = @ + 1]

Init ==
    /\ fs \in Projects
    /\ fs0 = fs
    /\ args \in ArgSets
    /\ pc = "generate_tree"
    /\ run = 1
    /\ tree = ""
    /\ metrics = NewMetrics
    /\ summaries = 0
    /\ backup_dir = None
    /\ backups = NoFiles
    /\ walk = <<>> /\ f_pc = "idle" /\ filepath = None
    /\ content = "" /\ updated_content = "" /\ backup_successful = TRUE
    /\ modified_files = <<>> /\ fstate = NoFiles /\ bk = NoFiles /\ opened = {}
    /\ faults = 0
    /\ prev = None
    /\ TreeIdle
    /\ ApplyIdle

\* the environment may make one more file operation fail
MayFail == faults < MaxFaults

OtherVars == <<treeVars, applyVars>>

(***************************************************************************)
(* main(), lines 401-454                                                   *)
(***************************************************************************)
\* line 405
GenerateTree ==
    /\ pc = "generate_tree"
    /\ tree' = generate_tree(fs, RootName)
    /\ pc' = "generate_map_file"
    /\ UNCHANGED <<fs, fs0, args, run, metrics, summaries, backup_dir, backups,
                   fileVars, faults, prev, OtherVars>>

\* line 405: iterdir raises (a directory that cannot be listed)
GenerateTreeFails ==
    /\ pc = "generate_tree"
    /\ MayFail
    /\ faults' = faults + 1
    /\ pc' = "except"
    /\ UNCHANGED <<fs, fs0, args, run, tree, metrics, summaries, backup_dir,
                   backups, fileVars, prev, OtherVars>>

AfterMapFile == IF args.update_files THEN "preview" ELSE "summary"

\* lines 407-408, generate_map_file
GenerateMapFile ==
    /\ pc = "generate_map_file"
    /\ fs' = ( <<args.output>> :> TextFile(MapFileContent(tree, args.output)) ) @@ fs
    /\ metrics' = [metrics EXCEPT !.map_file_saved = TRUE]
    /\ pc' = AfterMapFile
    /\ UNCHANGED <<fs0, args, run, tree, summaries, backup_dir, backups,
                   fileVars, faults, prev, OtherVars>>

\* generate_map_file: the file cannot be opened, lines 381-383
GenerateMapFileFails ==
    /\ pc = "generate_map_file"
    /\ MayFail
    /\ faults' = faults + 1
    /\ metrics' = IncErrors(metrics)
    /\ pc' = AfterMapFile
    /\ UNCHANGED <<fs, fs0, args, run, tree, summaries, backup_dir, backups,
                   fileVars, prev, OtherVars>>

\* line 412
Changes(F) ==
    LET Candidate(f) == is_file(F, f) /\ ~should_exclude(F, f) /\ ~is_binary_file(F, f)
    IN  SelectSeq(RGlob(F, <<>>), Candidate)

\* lines 410-419: with nothing to update main returns at once
Preview ==
    /\ pc = "preview"
    /\ pc' = IF Changes(fs) = <<>> THEN "returned" ELSE "ask_proceed"
    /\ UNCHANGED <<fs, fs0, args, run, tree, metrics, summaries, backup_dir,
                   backups, fileVars, faults, prev, OtherVars>>

\* lines 421-424 and 446-447
AskProceed ==
    /\ pc = "ask_proceed"
    /\ \E answer \in Answers :
        /\ pc' = IF SaysYes(answer)
                 THEN (IF args.backup THEN "ask_backup" ELSE "update")
                 ELSE "summary"
    /\ backup_dir' = None
    /\ UNCHANGED <<fs, fs0, args, run, tree, metrics, summaries, backups,
                   fileVars, faults, prev, OtherVars>>

\* lines 425-429
AskBackup ==
    /\ pc = "ask_backup"
    /\ \E answer \in Answers :
        IF SaysYes(answer)
        THEN /\ backup_dir' = <<".tree_map_backup", Timestamp(run)>>
             /\ fs' = ( <<".tree_map_backup">> :> Dir ) @@
                      ( <<".tree_map_backup", Timestamp(run)>> :> Dir ) @@ fs
        ELSE /\ backup_dir' = None
             /\ fs' = fs
    /\ pc' = "update"
    /\ UNCHANGED <<fs0, args, run, tree, metrics, summaries, backups,
                   fileVars, faults, prev, OtherVars>>

\* input() raises EOFError at a prompt
PromptFails ==
    /\ pc \in {"ask_proceed", "ask_backup", "ask_git"}
    /\ MayFail
    /\ faults' = faults + 1
    /\ pc' = "except"
    /\ UNCHANGED <<fs, fs0, args, run, tree, metrics, summaries, backup_dir,
                   backups, fileVars, prev, OtherVars>>

(***************************************************************************)
(* update_files_with_tree, lines 186-258                                   *)
(***************************************************************************)
\* lines 187-188: the walk starts
StartUpdate ==
    /\ pc = "update"
    /\ modified_files' = <<>>
    /\ walk' = RGlob(fs, <<>>)
    /\ fstate' = [p \in DOMAIN fs |-> "Unvisited"]
    /\ bk' = [p \in DOMAIN fs |-> "none"]
    /\ opened' = {}
    /\ f_pc' = "next"
    /\ pc' = "loop"
    /\ UNCHANGED <<fs, fs0, args, run, tree, metrics, summaries, backup_dir,
                   backups, filepath, content, updated_content,
                   backup_successful, faults, prev, OtherVars>>

\* lines 188-205: the next path of the walk, up to the try block
Visit ==
    /\ pc = "loop" /\ f_pc = "next" /\ walk # <<>>
    /\ LET path == Head(walk)
       IN  /\ filepath' = path
           /\ walk' = Tail(walk)
           /\ IF should_exclude(fs, path)
              THEN /\ metrics' = IncSkipped(metrics)
                   /\ fstate' = [fstate EXCEPT ![path] = "Excluded"]
                   /\ f_pc' = "next"
              ELSE IF is_file(fs, path)
              THEN IF is_binary_file(fs, path)
                   THEN /\ metrics' = IncSkipped(IncProcessed(metrics))
                        /\ fstate' = [fstate EXCEPT ![path] = "Binary"]
                        /\ f_pc' = "next"
                   ELSE /\ metrics' = IncProcessed(metrics)
                        /\ fstate' = [fstate EXCEPT ![path] = "Pending"]
                        /\ f_pc' = IF backup_dir # None THEN "backup" ELSE "read"
              ELSE /\ metrics' = metrics
                   /\ fstate' = [fstate EXCEPT ![path] = "Directory"]
                   /\ f_pc' = "next"
    /\ backup_successful' = TRUE
    /\ UNCHANGED <<fs, fs0, args, pc, run, tree, summaries, backup_dir, backups,
                   content, updated_content, modified_files, bk, opened,
                   faults, prev, OtherVars>>

\* lines 199-202 when the read inside is_binary_file raises for a text
\* file (it cannot be opened): the bare except reports it as binary
VisitUnreadable ==
    /\ pc = "loop" /\ f_pc = "next" /\ walk # <<>>
    /\ MayFail
    /\ LET path == Head(walk)
       IN  /\ ~should_exclude(fs, path)
           /\ is_file(fs, path)
           /\ ~is_binary_file(fs, path)
           /\ filepath' = path
           /\ walk' = Tail(walk)
           /\ metrics' = IncSkipped(IncProcessed(metrics))
           /\ fstate' = [fstate EXCEPT ![path] = "Binary"]
    /\ faults' = faults + 1
    /\ UNCHANGED <<fs, fs0, args, pc, run, tree, summaries, backup_dir, backups,
                   f_pc, content, updated_content, backup_successful,
                   modified_files, bk, opened, prev, OtherVars>>

\* lines 188-194 for a copy made earlier in this walk: rglob lists a
\* directory when it enters it, so a copy is met or not, depending on the
\* order in which the system lists the entries; every path below
\* .tree_map_backup is excluded
VisitBackupCopy ==
    /\ pc = "loop" /\ f_pc = "next"
    /\ \E dest \in DOMAIN backups \ DOMAIN fstate :
        /\ should_exclude((dest :> TextFile(backups[dest])) @@ fs, dest)
        /\ metrics' = IncSkipped(metrics)
        /\ fstate' = (dest :> "Excluded") @@ fstate
    /\ UNCHANGED <<fs, fs0, args, pc, run, tree, summaries, backup_dir, backups,
                   walk, f_pc, filepath, content, updated_content,
                   backup_successful, modified_files, bk, opened, faults, prev,
                   OtherVars>>

\* lines 206-213 and create_backup: the copy is made
Backup ==
    /\ pc = "loop" /\ f_pc = "backup"
    /\ LET dest == BackupPath(fs, backup_dir, filepath)
       IN  IF dest = None
           THEN /\ backup_successful' = FALSE
                /\ bk' = [bk EXCEPT ![filepath] = "skipped"]
                /\ fstate' = [fstate EXCEPT ![filepath] = "BackupFailed"]
                /\ UNCHANGED <<backups, metrics>>
           ELSE /\ backups' = (dest :> fs[filepath].data) @@ backups
                /\ metrics' = [metrics EXCEPT !.backup_size = @ + Len(fs[filepath].data)]
                /\ backup_successful' = TRUE
                /\ bk' = [bk EXCEPT ![filepath] = "ok"]
                /\ fstate' = [fstate EXCEPT ![filepath] = "BackedUp"]
    /\ f_pc' = "read"
    /\ UNCHANGED <<fs, fs0, args, pc, run, tree, summaries, backup_dir, walk,
                   filepath, content, updated_content, modified_files, opened,
                   faults, prev, OtherVars>>

\* create_backup, lines 320-323: the copy raises; the caller goes on
BackupFails ==
    /\ pc = "loop" /\ f_pc = "backup"
    /\ BackupPath(fs, backup_dir, filepath) # None
    /\ MayFail
    /\ faults' = faults + 1
    /\ metrics' = IncErrors(metrics)
    /\ backup_successful' = FALSE
    /\ bk' = [bk EXCEPT ![filepath] = "failed"]
    /\ fstate' = [fstate EXCEPT ![filepath] = "BackupFailed"]
    /\ f_pc' = "read"
    /\ UNCHANGED <<fs, fs0, args, pc, run, tree, summaries, backup_dir, backups,
                   walk, filepath, content, updated_content, modified_files,
                   opened, prev, OtherVars>>

\* lines 253-256: the except clause of the loop body
Errored ==
    /\ metrics' = IncSkipped(IncErrors(metrics))
    /\ fstate' = [fstate EXCEPT ![filepath] = "Errored"]
    /\ f_pc' = "next"

\* lines 215-216
Read ==
    /\ pc = "loop" /\ f_pc = "read"
    /\ content' = ReadText(fs[filepath].data)
    /\ fstate' = [fstate EXCEPT ![filepath] = "Read"]
    /\ f_pc' = "encode"
    /\ UNCHANGED <<fs, fs0, args, pc, run, tree, metrics, summaries, backup_dir,
                   backups, walk, filepath, updated_content, backup_successful,
                   modified_files, bk, opened, faults, prev, OtherVars>>

\* lines 215-216 raise (the bytes are not UTF-8, or the read fails)
ReadFails ==
    /\ pc = "loop" /\ f_pc = "read"
    /\ MayFail
    /\ faults' = faults + 1
    /\ Errored
    /\ UNCHANGED <<fs, fs0, args, pc, run, tree, summaries, backup_dir, backups,
                   walk, filepath, content, updated_content, backup_successful,
                   modified_files, bk, opened, prev, OtherVars>>

\* lines 218-242 and 250-252: the new content is computed and compared
Encode ==
    /\ pc = "loop" /\ f_pc = "encode"
    /\ LET new == apply(content, tree, Name(filepath))
       IN  IF new.err
           THEN Errored /\ UNCHANGED updated_content
           ELSE /\ updated_content' = new.text
                /\ IF new.text # content
                   THEN /\ fstate' = [fstate EXCEPT ![filepath] = "Encoded"]
                        /\ f_pc' = "write_open"
                        /\ metrics' = metrics
                   ELSE /\ fstate' = [fstate EXCEPT ![filepath] = "NoOpSkipped"]
                        /\ f_pc' = "next"
                        /\ metrics' = IncSkipped(metrics)
    /\ UNCHANGED <<fs, fs0, args, pc, run, tree, summaries, backup_dir, backups,
                   walk, filepath, content, backup_successful, modified_files,
                   bk, opened, faults, prev, OtherVars>>

\* line 243: open(filepath, 'w') truncates the file
OpenForWrite ==
    /\ pc = "loop" /\ f_pc = "write_open"
    /\ fs' = [fs EXCEPT ![filepath].data = ""]
    /\ opened' = opened \cup {filepath}
    /\ f_pc' = "write"
    /\ UNCHANGED <<fs0, args, pc, run, tree, metrics, summaries, backup_dir,
                   backups, walk, filepath, content, updated_content,
                   backup_successful, modified_files, fstate, bk, faults, prev,
                   OtherVars>>

\* line 243 raises (the file is read-only): nothing is written
OpenForWriteFails ==
    /\ pc = "loop" /\ f_pc = "write_open"
    /\ MayFail
    /\ faults' = faults + 1
    /\ Errored
    /\ UNCHANGED <<fs, fs0, args, pc, run, tree, summaries, backup_dir, backups,
                   walk, filepath, content, updated_content, backup_successful,
                   modified_files, bk, opened, prev, OtherVars>>

\* lines 244-249: the content is written and the file closed
Write ==
    /\ pc = "loop" /\ f_pc = "write"
    /\ fs' = [fs EXCEPT ![filepath].data = updated_content]
    /\ modified_files' = Append(modified_files, filepath)
    /\ metrics' = IncModified(metrics)
    /\ fstate' = [fstate EXCEPT ![filepath] = "Written"]
    /\ f_pc' = "next"
    /\ UNCHANGED <<fs0, args, pc, run, tree, summaries, backup_dir, backups,
                   walk, filepath, content, updated_content, backup_successful,
                   bk, opened, faults, prev, OtherVars>>

\* what a write that raises may leave in the truncated file: nothing, or
\* the part that was flushed before the error
PartialWrites(text) == { "", SubSeq(text, 1, Len(text) \div 2) }

\* line 244 or the close raises (the disk is full)
WriteFails ==
    /\ pc = "loop" /\ f_pc = "write"
    /\ MayFail
    /\ faults' = faults + 1
    /\ \E left \in PartialWrites(updated_content) :
           fs' = [fs EXCEPT ![filepath].data = left]
    /\ Errored
    /\ UNCHANGED <<fs0, args, pc, run, tree, summaries, backup_dir, backups,
                   walk, filepath, content, updated_content, backup_successful,
                   modified_files, bk, opened, prev, OtherVars>>

\* line 258: the walk is over
ReturnModified ==
    /\ pc = "loop" /\ f_pc = "next" /\ walk = <<>>
    /\ f_pc' = "idle"
    /\ pc' = "updated"
    /\ UNCHANGED <<fs, fs0, args, run, tree, metrics, summaries, backup_dir,
                   backups, walk, filepath, content, updated_content,
                   backup_successful, modified_files, fstate, bk, opened,
                   faults, prev, OtherVars>>

(***************************************************************************)
(* main(), after the update                                                *)
(***************************************************************************)
\* lines 434-445
AfterUpdate ==
    /\ pc = "updated"
    /\ pc' = IF modified_files # <<>> /\ <<".git">> \in DOMAIN fs
             THEN "ask_git" ELSE "summary"
    /\ UNCHANGED <<fs, fs0, args, run, tree, metrics, summaries, backup_dir,
                   backups, fileVars, faults, prev, OtherVars>>

\* lines 438-440 and git_commit_changes
AskGit ==
    /\ pc = "ask_git"
    /\ \E answer \in Answers : pc' = "summary"
    /\ UNCHANGED <<fs, fs0, args, run, tree, metrics, summaries, backup_dir,
                   backups, fileVars, faults, prev, OtherVars>>

\* git_commit_changes, lines 282-284: git add or git commit fails
GitCommitFails ==
    /\ pc = "ask_git"
    /\ MayFail
    /\ faults' = faults + 1
    /\ metrics' = IncErrors(metrics)
    /\ pc' = "summary"
    /\ UNCHANGED <<fs, fs0, args, run, tree, summaries, backup_dir, backups,
                   fileVars, prev, OtherVars>>

\* line 449
PrintSummary ==
    /\ pc = "summary"
    /\ summaries' = summaries + 1
    /\ pc' = "returned"
    /\ UNCHANGED <<fs, fs0, args, run, tree, metrics, backup_dir, backups,
                   fileVars, faults, prev, OtherVars>>

\* lines 451-454
UnexpectedError ==
    /\ pc = "except"
    /\ metrics' = IncErrors(metrics)
    /\ summaries' = summaries + 1
    /\ pc' = "returned"
    /\ UNCHANGED <<fs, fs0, args, run, tree, backup_dir, backups, fileVars,
                   faults, prev, OtherVars>>

\* the tool is started again in the same directory with the same command
\* line (lines 456-458: a new Metrics object)
NextRun ==
    /\ pc = "returned"
    /\ run < MaxRuns
    /\ prev' = [modified_files |-> modified_files, metrics |-> metrics,
                updated |-> (f_pc = "idle" /\ fstate # NoFiles), prev |-> prev]
    /\ run' = run + 1
    /\ fs' = [p \in DOMAIN backups |-> TextFile(backups[p])] @@ fs
    /\ fs0' = fs'
    /\ backups' = NoFiles
    /\ pc' = "generate_tree"
    /\ tree' = ""
    /\ metrics' = NewMetrics
    /\ summaries' = 0
    /\ backup_dir' = None
    /\ walk' = <<>> /\ f_pc' = "idle" /\ filepath' = None
    /\ content' = "" /\ updated_content' = "" /\ backup_successful' = TRUE
    /\ modified_files' = <<>> /\ fstate' = NoFiles /\ bk' = NoFiles /\ opened' = {}
    /\ UNCHANGED <<args, faults, OtherVars>>

\* the steps that raise no exception
Steps ==
    \/ GenerateTree \/ GenerateMapFile \/ Preview \/ AskProceed \/ AskBackup
    \/ StartUpdate \/ Visit \/ VisitBackupCopy \/ Backup \/ Read \/ Encode \/ OpenForWrite \/ Write
    \/ ReturnModified \/ AfterUpdate \/ AskGit \/ PrintSummary

\* the steps in which a file operation or a prompt fails
Failures ==
    \/ GenerateTreeFails \/ GenerateMapFileFails \/ PromptFails
    \/ VisitUnreadable \/ BackupFails \/ ReadFails \/ OpenForWriteFails
    \/ WriteFails \/ GitCommitFails \/ UnexpectedError

Next == Steps \/ Failures

Spec == Init /\ [][Next]_vars

RunsNext == Steps \/ NextRun

SpecRuns == Init /\ [][RunsNext]_vars


\* C1: a second application with the same tree text and file name yields
\* the content of the first application.
C1_Idempotence ==
    a_pc = 2 => ~a_twice.err /\ a_twice.text = a_once.text

\* the first block as the claim describes it: from the first start marker
\* that a "File:" line follows, through that line, and through the end
\* marker line when it comes next
ClaimedBlock(old, style) ==
    LET lit1 == style.start \o " Repository Map:"
        lit2 == style.middle \o " File:"
        p == FirstAt(old, lit1, 1)
        q == IF p = 0 THEN 0 ELSE FirstAt(old, lit2, p + Len(lit1))
        r == IF q = 0 THEN 0 ELSE FirstAt(old, "\n", q + Len(lit2))
        withEnd == /\ style.end # ""
                   /\ StartsWithAt(old, style.end \o "\n", r + 1)
    IN  IF r = 0 THEN [first |-> 0, last |-> 0]
        ELSE [first |-> p,
              last  |-> IF withEnd THEN r + Len(style.end) + 1 ELSE r]

\* C2: the new content is the old one with the first block replaced by the
\* freshly encoded block, every character before and after it unchanged,
\* and the encoded block followed by the old content when there is no block.
C2_ContentPreservation ==
    a_pc >= 1 =>
        LET style == get_comment_style(Suffix(a_name))
            block == UpdatedMap(a_tree, style, a_name)
            b     == ClaimedBlock(a_content, style)
        IN  /\ ~a_once.err
            /\ a_once.text =
                 IF b.first # 0
                 THEN SubSeq(a_content, 1, b.first - 1) \o block
                      \o SubSeq(a_content, b.last + 1, Len(a_content))
                 ELSE block \o a_content

(***************************************************************************)
(* Reading the rendered tree back                                          *)
(***************************************************************************)
\* the lines of the string generate_tree returns
TreeOutput == SplitLines(Join(t_tree))

\* a rendered line read back: its indentation units, its connector and
\* the text after the connector
RECURSIVE ParseLine(_, _)
ParseLine(line, indent) ==
    LET unit == SubSeq(line, 1, 4)
        rest == SubSeq(line, 5, Len(line))
    IN  IF Len(line) >= 4 /\ unit \in {PIPE, BLANK}
        THEN ParseLine(rest, Append(indent, unit))
        ELSE IF Len(line) >= 4 /\ unit \in {TEE, ELBOW}
        THEN [indent |-> indent, conn |-> unit, text |-> rest]
        ELSE [indent |-> indent, conn |-> "", text |-> line]

\* every line of a rendering, read back
ParsedLines(lines) == [i \in 1..Len(lines) |-> ParseLine(lines[i], <<>>)]

\* the filtered tree: the entries no part of which is excluded
Shown(F) == { p \in DOMAIN F : ~should_exclude(F, p) }

EntryText(F, p) == IF is_file(F, p) THEN Name(p) ELSE Name(p) \o "/"

\* the lines that render entry p (the names of the model are distinct)
LinesOf(F, parsed, p) ==
    { i \in 2..Len(parsed) :
        /\ parsed[i].text = EntryText(F, p)
        /\ Len(parsed[i].indent) = Len(p) - 1 }

\* p comes before q in the combined list of their directory
ListedBefore(F, p, q) ==
    \/ is_file(F, p) /\ ~is_file(F, q)
    \/ is_file(F, p) = is_file(F, q) /\ StrLess(Name(p), Name(q))

Range(seq) == { seq[i] : i \in 1..Len(seq) }

\* the lines of the tree held by main(), read back
RunTreeLines == ParsedLines(SplitLines(tree))

\* the path has an ancestor directory, below the project root, whose name
\* matches a directory-exclusion pattern
UnderExcludedDir(path) ==
    \E i \in 1..(Len(path) - 1) : MatchesAny(path[i], EXCLUDE_DIRS_lower)

\* C3: a file under a directory whose name matches a directory-exclusion
\* pattern has no line in the generated tree, is never taken up by the
\* update loop, is never opened for writing, keeps its content and is not
\* in the list of modified files.
C3_ExclusionCorrectness ==
    \A p \in DOMAIN fs0 :
        (is_file(fs0, p) /\ UnderExcludedDir(p)) =>
            /\ \A i \in 1..Len(RunTreeLines) : RunTreeLines[i].text # Name(p)
            /\ p \notin opened
            /\ fs[p] = fs0[p]
            /\ p \notin Range(modified_files)
            /\ p \in DOMAIN fstate => fstate[p] \in {"Unvisited", "Excluded"}
            /\ f_pc \in {"backup", "read", "encode", "write_open", "write"} => filepath # p

\* the update loop has finished on a project in which a file lies under an
\* excluded directory: that file was met by the walk, and another file
\* was rewritten
C3_Witness ==
    /\ pc = "updated"
    /\ \E p \in DOMAIN fs0 :
        /\ is_file(fs0, p) /\ UnderExcludedDir(p)
        /\ ~MatchesAny(Name(p), EXCLUDE_DIRS_lower)
        /\ ~MatchesAny(Name(p), EXCLUDE_FILES_lower)
        /\ fstate[p] = "Excluded"
    /\ \E q \in DOMAIN fs0 : fstate[q] = "Written"
    /\ Len(RunTreeLines) >= 2

\* C4: in the second of two successive runs with in-place updates no file
\* is modified, and every file the first run modified is skipped with
\* "no changes needed".
C4_SecondRunModifiesNothing ==
    (run = 2 /\ prev.updated /\ pc = "updated") =>
        /\ metrics.files_modified = 0
        /\ \A p \in Range(prev.modified_files) : fstate[p] = "NoOpSkipped"

\* the content the file has when the update loop starts: the map file is
\* written by generate_map_file before the loop
StartData(p) ==
    IF p \in DOMAIN fs0 /\ (p # <<args.output>> \/ ~metrics.map_file_saved)
    THEN fs0[p].data
    ELSE MapFileContent(tree, args.output)

\* the fully updated content of the file: the encoded block of the tree
\* of this run applied to the text read from the file
FullyUpdated(p) == apply(ReadText(StartData(p)), tree, Name(p))

\* the update loop has finished with the file
Processed(p) == fstate[p] \in {"Written", "NoOpSkipped", "Errored"}

\* C5: a file the update loop has finished with holds either the fully
\* updated content or its content from before the run, and holds the
\* latter when the failure came before the write step.
C5_PerFileAtomicity ==
    \A p \in DOMAIN fstate :
        Processed(p) =>
            /\ \/ fs[p].data = StartData(p)
               \/ ~FullyUpdated(p).err /\ fs[p].data = FullyUpdated(p).text
            /\ p \notin opened => fs[p].data = StartData(p)

\* C7: when main() returns, the metrics summary has been printed.
C7_SummaryAlwaysPrinted ==
    pc = "returned" => summaries >= 1

\* the files of the walk in the given state of the per-file state machine
InState(states) == { p \in DOMAIN fstate : fstate[p] \in states }

\* the files whose backup copy could not be made
BackupFailed == { p \in DOMAIN bk : bk[p] = "failed" }

\* the walk is over: no path is left and every path met has been dealt with
WalkComplete ==
    /\ walk = <<>>
    /\ DOMAIN fstate =
           InState({"Excluded", "Directory", "Binary", "Written", "NoOpSkipped",
                    "Errored"})

\* the errors counted before the loop started: generate_map_file failed
ErrorsBeforeLoop == IF metrics.map_file_saved THEN 0 ELSE 1

C9_BackupOrderingAndDegradation ==
    (pc \in {"loop", "updated"} /\ backup_dir # None) =>
        /\ \A p \in InState({"Read", "Encoded", "Written", "NoOpSkipped"}) :
               bk[p] \in {"ok", "failed"}
        /\ \A p \in opened : bk[p] \in {"ok", "failed"}
        /\ \A p \in DOMAIN bk :
               bk[p] = "ok" =>
                   /\ BackupPath(fs, backup_dir, p) \in DOMAIN backups
                   /\ backups[BackupPath(fs, backup_dir, p)] = StartData(p)
        /\ pc = "updated" => WalkComplete
        /\ \A p \in BackupFailed : p \in opened => args.force

C11_PostPassChangesNothing ==
    ~StartsWith(t_name, ELBOW) =>
        /\ t_pc = "built" =>
               /\ Cardinality({ i \in 1..Len(t_tree) : StartsWith(t_tree[i], ELBOW) }) <= 1
               /\ TrailingRun(t_tree) <= 1
               /\ PostPass(t_tree) = t_tree
        /\ t_pc = "done" =>
               /\ t_tree = Descent(t_fs, t_name)
               /\ generate_tree(t_fs, t_name) = Join(Descent(t_fs, t_name))

\* the loop has rewritten the one line of the trailing run, the last line
\* of a tree in which a nested line carries the elbow too
C11_Witness ==
    /\ t_pc = "done"
    /\ ~StartsWith(t_name, ELBOW)
    /\ Len(t_tree) >= 4
    /\ TrailingRun(t_tree) = 1
    /\ \E i \in 1..Len(t_tree) : StartsWith(t_tree[i], PIPE \o ELBOW)

====
